---- MODULE Spec2Model ----
(***************************************************************************)
(* Game Titles Extractor (src/gameTitleExtractor.py): the console          *)
(* registry, the directory scan, the report writer and the start_process   *)
(* driver, together with the file system they act on.                      *)
(*                                                                         *)
(* A Python str is a sequence of one-character strings, "" is <<>>.        *)
(* An optional value is a sequence of length 0 (None) or 1.                *)
(* A Python dict is a sequence of <<key, value>> pairs in insertion order. *)
(***************************************************************************)
EXTENDS Integers, Sequences, FiniteSets, TLC

----------------------------------------------------------------------------
(* Bounds of the exploration *)

\* number of start_process events explored
MaxStarts == 2
\* number of file-system changes made by the environment
MaxEnv == 1

----------------------------------------------------------------------------
(* String literals of the program *)

Xbox == <<"X","b","o","x">>
Nintendo64 == <<"N","i","n","t","e","n","d","o"," ","6","4">>

\* the part of the console catalog that is explored
popular_consoles == <<Xbox, Nintendo64>>

DotZip == <<".","z","i","p">>
DotTxt == <<".","t","x","t">>
ConsolePrefix == <<"C","o","n","s","o","l","e",":"," ">>
WarningPrefix == <<"W","a","r","n","i","n","g",":"," ","W","e"," ","d","o"," ","n","o","t"," ","k","n","o","w"," ","i","f"," ","t","h","e"," ","l","i","s","t"," ","b","e","l","o","w"," ","i","s"," ","a","c","t","u","a","l"," ">>
WarningSuffix == <<" ","g","a","m","e"," ","t","i","t","l","e","s"," ","o","r"," ","n","o","t","."," ","P","l","e","a","s","e"," ","d","o","u","b","l","e","-","c","h","e","c","k"," ","b","y"," ","y","o","u","r","s","e","l","f",".","\n","\n">>
NL == <<"\n">>
Slash == <<"/">>
Underscore == <<"_">>
Dash == <<"-">>

----------------------------------------------------------------------------
(* The environment: directories, file names, dates *)

DirA == <<"/","a">>
DirB == <<"/","b">>
\* the directories the directory chooser can return
DirUniverse == {DirA, DirB}

MegaMan == <<"M",".","z","i","p">>
Alpha == <<"a",".","z","i","p">>
UpperZip == <<"b",".","Z","I","P">>
Readme == <<"r",".","t","x","t">>
\* the names of the files the user keeps in those directories
NameUniverse == {MegaMan, Alpha, UpperZip, Readme}

\* the days on which the program runs
Dates == << [year |-> 2024, month |-> 5, day |-> 18],
            [year |-> 2024, month |-> 12, day |-> 9] >>

Modes == {"ok", "gone", "noaccess", "faulty"}

----------------------------------------------------------------------------
(* Python built-ins used by the program *)

None == <<>>
Some(x) == <<x>>

Last(s) == s[Len(s)]

RECURSIVE Flatten(_)
Flatten(ss) == IF ss = <<>> THEN <<>> ELSE Head(ss) \o Flatten(Tail(ss))

\* str.endswith
endswith(s, suffix) ==
    /\ Len(s) >= Len(suffix)
    /\ SubSeq(s, Len(s) - Len(suffix) + 1, Len(s)) = suffix

\* dict: key lookup, dict.get, item assignment
DictKeys(d) == [i \in 1..Len(d) |-> d[i][1]]
DictHas(d, k) == \E i \in 1..Len(d) : d[i][1] = k
DictGet(d, k, default) ==
    IF DictHas(d, k)
    THEN d[CHOOSE i \in 1..Len(d) : d[i][1] = k][2]
    ELSE default
\* variant: assigning to an existing key moves the key to the end
DictSet_MoveToEnd(d, k, v) ==
    Append(SelectSeq(d, LAMBDA item : item[1] # k), <<k, v>>)

DictSet(d, k, v) ==
    IF DictHas(d, k)
    THEN [i \in 1..Len(d) |-> IF d[i][1] = k THEN <<k, v>> ELSE d[i]]
    ELSE Append(d, <<k, v>>)

\* decimal digits of n, zero-padded to width w (strftime %Y, %m, %d)
DigitChar(n) == <<"0","1","2","3","4","5","6","7","8","9">>[n + 1]
RECURSIVE Pad(_, _)
Pad(n, w) == IF w = 0 THEN <<>> ELSE Pad(n \div 10, w - 1) \o <<DigitChar(n % 10)>>

\* datetime.strftime("%Y-%m-%d")
strftime(d) == Pad(d.year, 4) \o Dash \o Pad(d.month, 2) \o Dash \o Pad(d.day, 2)

\* index of the last "/" of p, 0 when there is none (str.rfind + 1)
RECURSIVE rfindSlash(_, _)
rfindSlash(p, i) == IF i = 0 THEN 0 ELSE IF p[i] = "/" THEN i ELSE rfindSlash(p, i - 1)

RECURSIVE rstripSlash(_)
rstripSlash(p) == IF p # <<>> /\ Last(p) = "/" THEN rstripSlash(SubSeq(p, 1, Len(p) - 1)) ELSE p

\* os.path.join of two components
join(directory, file_name) ==
    IF file_name # <<>> /\ Head(file_name) = "/" THEN file_name
    ELSE IF directory = <<>> \/ Last(directory) = "/" THEN directory \o file_name
    ELSE directory \o Slash \o file_name

\* os.path.dirname, os.path.basename
dirname(p) ==
    LET head == SubSeq(p, 1, rfindSlash(p, Len(p)))
    IN IF head # <<>> /\ \E i \in 1..Len(head) : head[i] # "/" THEN rstripSlash(head) ELSE head
basename(p) == SubSeq(p, rfindSlash(p, Len(p)) + 1, Len(p))

\* exact fractions, kept in lowest terms (the progress bar's value)
RECURSIVE GCD(_, _)
GCD(a, b) == IF b = 0 THEN a ELSE GCD(b, a % b)
Frac(n, d) == LET g == GCD(n, d) IN [num |-> n \div g, den |-> d \div g]
FracAdd(x, y) == Frac(x.num * y.den + y.num * x.den, x.den * y.den)

----------------------------------------------------------------------------
VARIABLES
    console_entries,   \* self.console_entries: dict console name -> directory
    selected_console,  \* self.selected_console: None or a console name
    output_files,      \* self.output_files: dict console name -> report path
    directory_entry,   \* text of the directory entry widget
    open_buttons,      \* state of the two "open" buttons
    progress,          \* self.progress_bar['value'], a fraction
    log,               \* the lines the latest handler call has added to the log pane so far,
                       \* one record per log_message call (no handler reads the pane)
    fs,                \* the file system: directory -> mode and entries
    today,             \* index in Dates of the current local date
    pc,                \* position of start_process: idle, loop, scan, write
    idx,               \* 1-based position of the loop of start_process
    total_consoles,    \* local of start_process
    game_titles,       \* result of get_game_titles for the current entry
    calls,             \* get_game_titles / write_game_titles calls of the current run
    fsWrites,          \* report files completely written, oldest first
    starts, envOps     \* numbers of start_process calls and of environment changes so far

vars == << console_entries, selected_console, output_files, directory_entry,
           open_buttons, progress, log, fs, today, pc, idx,
           total_consoles, game_titles, calls, fsWrites, starts, envOps >>

appVars == << console_entries, selected_console, output_files, directory_entry,
              open_buttons, progress >>
runVars == << pc, idx, total_consoles, game_titles, calls >>
envVars == << fs, today >>

\* one line of the log pane
Msg(kind, arg) == [kind |-> kind, arg |-> arg]

\* a file of a directory
File(name, data) == [name |-> name, data |-> data]
UserFile(name) == File(name, <<>>)

Init ==
    /\ console_entries = <<>>
    /\ selected_console = None
    /\ output_files = <<>>
    /\ directory_entry = <<>>
    /\ open_buttons = "disabled"
    /\ progress = Frac(0, 1)
    /\ log = <<>>
    /\ fs = [d \in DirUniverse |->
                IF d = DirA
                THEN [mode |-> "ok", entries |-> <<UserFile(Alpha), UserFile(UpperZip), UserFile(MegaMan)>>]
                ELSE [mode |-> "ok", entries |-> <<UserFile(Readme)>>]]
    /\ today = 1
    /\ pc = "idle"
    /\ idx = 0
    /\ total_consoles = 0
    /\ game_titles = <<>>
    /\ calls = <<>>
    /\ fsWrites = <<>>
    /\ starts = 0
    /\ envOps = 0

----------------------------------------------------------------------------
(* The registry: select_console and browse_directory *)

\* variant: selecting a console clears its directory
SelectEntry_Reset(entries, console_name) == DictSet(entries, console_name, <<>>)

\* select_console: the registry after console_name was selected
SelectEntry(entries, console_name) ==
    DictSet(entries, console_name, DictGet(entries, console_name, <<>>))

\* select_console, console_name being the value of the dropdown
select_console(console_name) ==
    /\ pc = "idle"
    /\ IF console_name # <<>>
       THEN /\ selected_console' = Some(console_name)
            /\ console_entries' = SelectEntry(console_entries, console_name)
            /\ log' = <<Msg("Selected console", console_name)>>
       ELSE /\ log' = <<Msg("Info: No console selected.", <<>>)>>
            /\ UNCHANGED << selected_console, console_entries >>
    /\ UNCHANGED << output_files, directory_entry, open_buttons, progress,
                    starts, envOps >>
    /\ UNCHANGED runVars
    /\ UNCHANGED envVars
    /\ UNCHANGED fsWrites

\* browse_directory, directory being the answer of the directory chooser
browse_directory(directory) ==
    /\ pc = "idle"
    /\ IF directory # <<>>
       THEN /\ directory_entry' = directory
            /\ IF selected_console # None
               THEN /\ console_entries' = DictSet(console_entries, selected_console[1], directory)
                    /\ log' = <<Msg("Selected directory for", <<selected_console[1], directory>>)>>
               ELSE /\ log' = <<Msg("Info: Attempt to select a directory without a selected console.", <<>>)>>
                    /\ UNCHANGED console_entries
       ELSE /\ log' = <<>>
            /\ UNCHANGED << directory_entry, console_entries >>
    /\ UNCHANGED << selected_console, output_files, open_buttons, progress,
                    starts, envOps >>
    /\ UNCHANGED runVars
    /\ UNCHANGED envVars
    /\ UNCHANGED fsWrites

----------------------------------------------------------------------------
(* The file system as the program sees it *)

\* variant: every path is taken to exist
exists_Always(p) == TRUE

\* os.path.exists
exists(p) == p \in DOMAIN fs /\ fs[p].mode # "gone"

\* os.listdir: the exception it raises ("ok" when none) and the names it returns
listdir_raises(d) ==
    IF ~exists(d) THEN "FileNotFoundError"
    ELSE IF fs[d].mode = "noaccess" THEN "PermissionError"
    ELSE IF fs[d].mode = "faulty" THEN "Exception"
    ELSE "ok"
listdir(d) == [i \in 1..Len(fs[d].entries) |-> fs[d].entries[i].name]

\* open(file_path, 'w'): the exception it raises ("ok" when none)
open_raises(file_path) ==
    LET d == dirname(file_path)
    IN IF ~exists(d) THEN "FileNotFoundError"
       ELSE IF fs[d].mode = "noaccess" THEN "PermissionError"
       ELSE IF fs[d].mode = "faulty" THEN "Exception"
       ELSE "ok"

\* the entries of a directory after name was created or truncated and data written to it
WriteEntry(entries, name, data) ==
    IF \E i \in 1..Len(entries) : entries[i].name = name
    THEN [i \in 1..Len(entries) |-> IF entries[i].name = name THEN File(name, data) ELSE entries[i]]
    ELSE Append(entries, File(name, data))

\* the file system after file_path holds data
FsWrite(file_path, data) ==
    LET d == dirname(file_path)
    IN [fs EXCEPT ![d].entries = WriteEntry(@, basename(file_path), data)]

\* the content of file_path, None when there is no such file
FileData(file_path) ==
    LET d == dirname(file_path)
        n == basename(file_path)
    IN IF d \in DOMAIN fs /\ \E i \in 1..Len(fs[d].entries) : fs[d].entries[i].name = n
       THEN Some(fs[d].entries[CHOOSE i \in 1..Len(fs[d].entries) : fs[d].entries[i].name = n].data)
       ELSE None

----------------------------------------------------------------------------
(* The extraction pipeline *)

\* variant: the suffix is matched without regard to case
IsGameTitle_IgnoreCase(file_name) ==
    endswith(file_name, DotZip) \/ endswith(file_name, <<".","Z","I","P">>)

\* the file names kept by get_game_titles
IsGameTitle(file_name) == endswith(file_name, DotZip)

\* get_game_titles: the list it returns and the lines it logs
get_game_titles(directory) ==
    LET raised == listdir_raises(directory)
    IN CASE raised = "ok" ->
              [titles |-> SelectSeq(listdir(directory), IsGameTitle), lines |-> <<>>]
         [] raised = "FileNotFoundError" ->
              [titles |-> <<>>, lines |-> <<Msg("Error: The directory does not exist.", directory)>>]
         [] raised = "PermissionError" ->
              [titles |-> <<>>, lines |-> <<Msg("Error: Permission denied to access the directory", directory)>>]
         [] OTHER ->
              [titles |-> <<>>, lines |-> <<Msg("An unexpected error occurred while accessing the directory", directory)>>]

\* variant: the name also carries the number of the run
ReportName_Stamped(console_name, date_str) ==
    console_name \o Underscore \o date_str \o Underscore \o Pad(starts, 2) \o DotTxt

\* write_game_titles: name and path of the report
ReportName(console_name, date_str) == console_name \o Underscore \o date_str \o DotTxt
ReportPath(directory, console_name, date_str) == join(directory, ReportName(console_name, date_str))

\* write_game_titles: the strings passed to file.write, in order
ReportWrites(console_name, titles) ==
    << ConsolePrefix \o console_name \o NL,
       WarningPrefix \o console_name \o WarningSuffix >>
    \o [i \in 1..Len(titles) |-> titles[i] \o NL]

\* variant: the report is written whatever the list holds
ShouldWrite_Always(titles) == TRUE

\* write_game_titles: does it open the report at all
ShouldWrite(titles) == titles # <<>>

\* variant: a record is added without looking for an earlier one
RecordOutput_Append(files, console_name, file_path) == Append(files, <<console_name, file_path>>)

\* write_game_titles: the record made after a successful write
RecordOutput(files, console_name, file_path) == DictSet(files, console_name, file_path)

\* variant: only an empty registry is refused
StartRefused_EmptyRegistry == console_entries = <<>>

\* start_process: the guard that refuses to start
StartRefused ==
    \/ selected_console = None
    \/ DictGet(console_entries, selected_console[1], <<>>) = <<>>

\* start_process: the progress after one entry went through the loop body
ProgressStep(value, total) == FracAdd(value, Frac(100, total))

\* variant: "break" in place of "continue"
SkipTo_Break(i) == Len(console_entries) + 1

\* start_process: where the loop goes on after the "continue" of a missing directory
SkipTo(i) == i + 1

\* start_process, up to the loop
start_process ==
    /\ pc = "idle"
    /\ starts < MaxStarts
    /\ starts' = starts + 1
    /\ LET debug == << Msg("Debug: Start process initiated. Selected console", selected_console),
                       Msg("Debug: Console entries", console_entries) >>
       IN IF StartRefused
          THEN /\ log' = debug \o <<Msg("Info: Attempt to start process without selecting both console and directory.", <<>>)>>
               /\ UNCHANGED << progress, pc, idx, total_consoles, game_titles, calls >>
          ELSE /\ log' = debug
               /\ progress' = Frac(0, 1)
               /\ total_consoles' = Len(console_entries)
               /\ idx' = 1
               /\ pc' = "loop"
               /\ game_titles' = <<>>
               /\ calls' = <<>>
    /\ UNCHANGED << console_entries, selected_console, output_files, directory_entry,
                    open_buttons, envOps, fsWrites >>
    /\ UNCHANGED envVars

\* start_process: the head of one loop iteration, with the os.path.exists test
LoopEntry ==
    /\ pc = "loop"
    /\ idx <= Len(console_entries)
    /\ LET console_name == console_entries[idx][1]
           directory == console_entries[idx][2]
           processing == Msg("Processing", <<console_name, directory>>)
       IN IF ~exists(directory)
          THEN /\ log' = log \o <<processing, Msg("Error: The directory does not exist.", directory)>>
               /\ idx' = SkipTo(idx)
               /\ UNCHANGED pc
          ELSE /\ log' = Append(log, processing)
               /\ pc' = "scan"
               /\ UNCHANGED idx
    /\ UNCHANGED << total_consoles, game_titles, calls, fsWrites, starts, envOps >>
    /\ UNCHANGED appVars
    /\ UNCHANGED envVars

\* start_process: the call of get_game_titles
LoopScan ==
    /\ pc = "scan"
    /\ LET console_name == console_entries[idx][1]
           directory == console_entries[idx][2]
           got == get_game_titles(directory)
       IN /\ game_titles' = got.titles
          /\ log' = log \o got.lines
          /\ calls' = Append(calls, [op |-> "get_game_titles", console |-> console_name, directory |-> directory,
                                      listing |-> IF listdir_raises(directory) = "ok" THEN listdir(directory) ELSE <<>>])
    /\ pc' = "write"
    /\ UNCHANGED << idx, total_consoles, fsWrites, starts, envOps >>
    /\ UNCHANGED appVars
    /\ UNCHANGED envVars

\* start_process: the call of write_game_titles and the progress update after it
LoopWrite ==
    /\ pc = "write"
    /\ LET console_name == console_entries[idx][1]
           directory == console_entries[idx][2]
           date_str == strftime(Dates[today])
           file_path == ReportPath(directory, console_name, date_str)
           attempt == Msg("Attempting to write file to", file_path)
           writes == ReportWrites(console_name, game_titles)
           raised == open_raises(file_path)
       IN /\ calls' = Append(calls, [op |-> "write_game_titles", console |-> console_name, directory |-> directory,
                                      listing |-> <<>>])
          /\ IF ShouldWrite(game_titles)
             THEN CASE raised = "ok" ->
                         /\ fs' = FsWrite(file_path, Flatten(writes))
                         /\ log' = log \o <<attempt, Msg("Game titles have been written to", file_path)>>
                         /\ output_files' = RecordOutput(output_files, console_name, file_path)
                         /\ open_buttons' = "normal"
                         /\ fsWrites' = Append(fsWrites,
                               [console |-> console_name, directory |-> directory, day |-> today,
                                path |-> file_path, titles |-> game_titles, data |-> Flatten(writes),
                                listing |-> Last(calls).listing])
                    [] raised = "FileNotFoundError" ->
                         /\ log' = log \o <<attempt, Msg("Error: The file path does not exist.", file_path)>>
                         /\ UNCHANGED << fs, output_files, open_buttons, fsWrites >>
                    [] raised = "PermissionError" ->
                         /\ log' = log \o <<attempt, Msg("Error: Permission denied to write to the file", file_path)>>
                         /\ UNCHANGED << fs, output_files, open_buttons, fsWrites >>
                    [] OTHER ->
                         \* the failure is in open, or in a write or the close after
                         \* the file was truncated: some of the strings got through
                         /\ \/ UNCHANGED fs
                            \/ \E k \in 0..(Len(writes) - 1) :
                                   fs' = FsWrite(file_path, Flatten(SubSeq(writes, 1, k)))
                         /\ log' = log \o <<attempt, Msg("An unexpected error occurred while writing to the file", file_path)>>
                         /\ UNCHANGED << output_files, open_buttons, fsWrites >>
             ELSE /\ log' = log \o <<attempt, Msg("No game titles found in the directory", directory)>>
                  /\ UNCHANGED << fs, output_files, open_buttons, fsWrites >>
    /\ progress' = ProgressStep(progress, total_consoles)
    /\ idx' = idx + 1
    /\ pc' = "loop"
    /\ UNCHANGED << console_entries, selected_console, directory_entry,
                    total_consoles, game_titles, today, starts, envOps >>

\* start_process: after the loop
LoopDone ==
    /\ pc = "loop"
    /\ idx > Len(console_entries)
    /\ log' = Append(log, Msg("Process completed.", <<>>))
    /\ progress' = Frac(100, 1)
    /\ pc' = "idle"
    \* the locals of the call are gone when it returns
    /\ idx' = 0
    /\ total_consoles' = 0
    /\ game_titles' = <<>>
    /\ calls' = <<>>
    /\ UNCHANGED << console_entries, selected_console, output_files, directory_entry,
                    open_buttons, fsWrites, starts, envOps >>
    /\ UNCHANGED envVars

----------------------------------------------------------------------------
(* The environment: other programs acting on the file system, and the clock *)

EnvSetMode ==
    /\ envOps < MaxEnv
    /\ envOps' = envOps + 1
    /\ \E d \in DirUniverse, m \in Modes :
          /\ m # fs[d].mode
          /\ fs' = [fs EXCEPT ![d].mode = m]
    /\ UNCHANGED << today, log, fsWrites, starts >>
    /\ UNCHANGED appVars
    /\ UNCHANGED runVars

EnvCreateFile ==
    /\ envOps < MaxEnv
    /\ envOps' = envOps + 1
    /\ \E d \in DirUniverse, n \in NameUniverse :
          /\ \A i \in 1..Len(fs[d].entries) : fs[d].entries[i].name # n
          /\ fs' = [fs EXCEPT ![d].entries = Append(@, UserFile(n))]
    /\ UNCHANGED << today, log, fsWrites, starts >>
    /\ UNCHANGED appVars
    /\ UNCHANGED runVars

EnvDeleteFile ==
    /\ envOps < MaxEnv
    /\ envOps' = envOps + 1
    /\ \E d \in DirUniverse : \E i \in 1..Len(fs[d].entries) :
          fs' = [fs EXCEPT ![d].entries = SubSeq(@, 1, i - 1) \o SubSeq(@, i + 1, Len(@))]
    /\ UNCHANGED << today, log, fsWrites, starts >>
    /\ UNCHANGED appVars
    /\ UNCHANGED runVars

EnvNextDay ==
    /\ envOps < MaxEnv
    /\ envOps' = envOps + 1
    /\ today < Len(Dates)
    /\ today' = today + 1
    /\ UNCHANGED << fs, log, fsWrites, starts >>
    /\ UNCHANGED appVars
    /\ UNCHANGED runVars

\* the dropdown is read-only and starts empty: once a catalog entry is picked
\* it never shows the empty string again
SelectConsole ==
    \E console_name \in {popular_consoles[i] : i \in 1..Len(popular_consoles)}
                         \cup (IF selected_console = None THEN {<<>>} ELSE {}) :
        select_console(console_name)
BrowseDirectory == \E directory \in DirUniverse \cup {<<>>} : browse_directory(directory)

Next ==
    \/ SelectConsole
    \/ BrowseDirectory
    \/ start_process
    \/ LoopEntry
    \/ LoopScan
    \/ LoopWrite
    \/ LoopDone
    \/ EnvSetMode
    \/ EnvCreateFile
    \/ EnvDeleteFile
    \/ EnvNextDay

Spec == Init /\ [][Next]_vars
----------------------------------------------------------------------------
(* Vocabulary of the properties *)

LineRefused == "Info: Attempt to start process without selecting both console and directory."
LineProcessing == "Processing"
LineDirMissing == "Error: The directory does not exist."
LineScanDenied == "Error: Permission denied to access the directory"
LineScanUnexpected == "An unexpected error occurred while accessing the directory"
LineAttempt == "Attempting to write file to"
LineWritten == "Game titles have been written to"
LineNoTitles == "No game titles found in the directory"
LineWriteMissing == "Error: The file path does not exist."
LineWriteDenied == "Error: Permission denied to write to the file"
LineWriteUnexpected == "An unexpected error occurred while writing to the file"
LineCompleted == "Process completed."

\* the lines of the log of the given kind
LinesOfKind(kind) == SelectSeq(log, LAMBDA m : m.kind = kind)

\* a step of the program (the environment never writes to the log pane)
StartStep == starts' = starts + 1
EntryStep == pc = "loop" /\ idx <= Len(console_entries) /\ log' # log
ScanStep == pc = "scan" /\ pc' = "write"
WriteStep == pc = "write" /\ pc' = "loop"
DoneStep == pc = "loop" /\ pc' = "idle"

\* the entry the loop is at
CurConsole == console_entries[idx][1]
CurDirectory == console_entries[idx][2]

\* the state of a directory, read off the file system
DirThere(d) == \E e \in DOMAIN fs : e = d /\ fs[e].mode # "gone"

----------------------------------------------------------------------------
(* C1 *)

\* C1 as stated (refuted): a start is refused exactly when the registry
\* holds no entry.
C1_RefusedIffRegistryEmpty ==
    [][StartStep => ((pc' = "idle") <=> (console_entries = <<>>))]_vars

\* C1 amended: start_process is refused, with the info line and no scan, no
\* write and no progress change, exactly when no console is selected or the
\* selected console has no directory; otherwise it resets the progress and
\* enters the loop over all entries of the registry.
C1_RefusedIffSelectedHasNoDirectory ==
    [][StartStep =>
        LET hasDirectory ==
                /\ selected_console # None
                /\ \E i \in 1..Len(console_entries) :
                      /\ console_entries[i][1] = selected_console[1]
                      /\ console_entries[i][2] # <<>>
        IN IF hasDirectory
           THEN /\ pc' = "loop"
                /\ idx' = 1
                /\ total_consoles' = Len(console_entries)
                /\ progress' = [num |-> 0, den |-> 1]
                /\ LinesOfKind(LineRefused)' = <<>>
           ELSE /\ pc' = "idle"
                /\ Last(log').kind = LineRefused
                /\ progress' = progress
                /\ calls' = calls
                /\ fs' = fs
                /\ output_files' = output_files
                /\ fsWrites' = fsWrites
    ]_vars

\* a start was refused although the registry holds a console with a directory
C1_Witness ==
    /\ log # <<>>
    /\ Last(log).kind = LineRefused
    /\ \E i \in 1..Len(console_entries) : console_entries[i][2] # <<>>

----------------------------------------------------------------------------
(* C2 *)

\* the consoles of the "Processing" lines of the run, in order
Attempted == [i \in 1..Len(LinesOfKind(LineProcessing)) |-> LinesOfKind(LineProcessing)[i].arg[1]]

\* the entries the loop has entered so far
Entered == IF pc \in {"scan", "write"} THEN idx ELSE idx - 1

C2_Inv ==
    /\ pc # "idle" =>
          \* the entries attempted so far are a prefix of the registry
          /\ Entered \in 0..Len(console_entries)
          /\ Attempted = SubSeq(DictKeys(console_entries), 1, Entered)
          /\ LinesOfKind(LineCompleted) = <<>>
          \* the run can always go on: the loop has a next step, and a call
          \* in progress is the call for an entry of the registry
          /\ pc = "loop" => ENABLED (LoopEntry \/ LoopDone)
          /\ pc = "scan" => ENABLED LoopScan
          /\ pc = "write" => idx \in 1..Len(console_entries)
    /\ (pc = "idle" /\ log # <<>> /\ Last(log).kind = LineCompleted) =>
          /\ Attempted = DictKeys(console_entries)
          /\ Len(LinesOfKind(LineCompleted)) = 1

C2_Step ==
    \* a missing directory, a failed scan and a failed write each add a line
    \* and leave the loop on its way to the next entry
    /\ (EntryStep /\ ~DirThere(CurDirectory)) =>
          /\ Len(log') > Len(log) + 1
          /\ pc' = "loop" /\ idx' = idx + 1
    /\ (ScanStep /\ (~DirThere(CurDirectory) \/ fs[CurDirectory].mode # "ok")) =>
          /\ Len(log') > Len(log)
          /\ idx' = idx
    /\ (WriteStep /\ game_titles # <<>> /\ (~DirThere(CurDirectory) \/ fs[CurDirectory].mode # "ok")) =>
          /\ Len(log') > Len(log) + 1
          /\ Last(log').kind \in {LineWriteMissing, LineWriteDenied, LineWriteUnexpected}
    /\ WriteStep => idx' = idx + 1
    \* the run ends only after the last entry
    /\ DoneStep => (idx = Len(console_entries) + 1 /\ Last(log').kind = LineCompleted)
    /\ (pc # "idle" /\ pc' = "idle") => DoneStep

\* C2: once a run has started every registry entry is attempted exactly
\* once, in registry order, and completion is then reported exactly once; a
\* missing directory, a failed scan or a failed write adds at least one log
\* line and does not keep the later entries from being processed.
C2_EveryEntryAttempted == [][C2_Step /\ C2_Inv']_vars

\* a run of two entries is complete, and has written the report of the
\* second entry, although the first entry failed in the scan or in the write
C2_Witness ==
    /\ pc = "idle"
    /\ log # <<>>
    /\ Last(log).kind = LineCompleted
    /\ Len(Attempted) = 2
    /\ \E i \in 1..Len(log) :
          /\ log[i].kind \in {LineScanDenied, LineScanUnexpected,
                              LineWriteMissing, LineWriteDenied, LineWriteUnexpected}
          /\ \E j \in (i + 1)..Len(log) : log[j].kind = LineWritten

----------------------------------------------------------------------------
(* C3 *)

\* C3 as stated (refuted by the code): between two entries of a run the
\* progress is (entries handled) / total_consoles of the bar's 100.
C3_ProgressIsHandledFraction ==
    pc = "loop" => progress.num * total_consoles = 100 * (idx - 1) * progress.den

----------------------------------------------------------------------------
(* C4 *)

\* C4: an entry whose directory does not exist when the loop reaches it gets
\* the "does not exist" error line; neither get_game_titles nor
\* write_game_titles is called for it, no file and no output record is made,
\* and the loop moves on to the next entry.
C4_MissingDirectorySkipped ==
    [][(EntryStep /\ ~DirThere(CurDirectory)) =>
          /\ log' = log \o << [kind |-> LineProcessing, arg |-> <<CurConsole, CurDirectory>>],
                              [kind |-> LineDirMissing, arg |-> CurDirectory] >>
          /\ calls' = calls
          /\ fs' = fs
          /\ fsWrites' = fsWrites
          /\ output_files' = output_files
          /\ pc' = "loop"
          /\ idx' = idx + 1
    ]_vars

\* a chosen directory that has vanished was skipped, and the entry after it
\* was scanned
C4_Witness ==
    /\ pc = "write"
    /\ idx = 2
    /\ Len(calls) = 1
    /\ \E i \in 1..Len(log) : log[i].kind = LineDirMissing /\ log[i].arg \in DirUniverse

----------------------------------------------------------------------------
(* C5 *)

\* the name ends in ".zip", letter by letter
EndsInDotZip(n) ==
    /\ Len(n) >= 4
    /\ n[Len(n) - 3] = "." /\ n[Len(n) - 2] = "z" /\ n[Len(n) - 1] = "i" /\ n[Len(n)] = "p"

\* C5: the title list is empty when the scan fails or the listing holds no
\* name ending in .zip, and with an empty title list write_game_titles
\* creates no file, leaves every existing file as it is, leaves the output
\* records as they are and logs that no titles were found.
C5_EmptyListNoReport ==
    [][ /\ (ScanStep /\ (~DirThere(CurDirectory) \/ fs[CurDirectory].mode # "ok"
                         \/ \A i \in 1..Len(fs[CurDirectory].entries) :
                               ~EndsInDotZip(fs[CurDirectory].entries[i].name)))
            => game_titles' = <<>>
        /\ (WriteStep /\ game_titles = <<>>) =>
              /\ fs' = fs
              /\ output_files' = output_files
              /\ fsWrites' = fsWrites
              /\ Last(log').kind = LineNoTitles
              /\ Last(log').arg = CurDirectory
    ]_vars

\* no titles were found for a console whose earlier report is still there
C5_Witness ==
    /\ log # <<>>
    /\ Last(log).kind = LineNoTitles
    /\ \E i \in 1..Len(fsWrites) :
          /\ fsWrites[i].directory = Last(log).arg
          /\ FileData(fsWrites[i].path) = Some(fsWrites[i].data)
          /\ DictHas(output_files, fsWrites[i].console)
----------------------------------------------------------------------------
(* C6 *)

\* the lines of a text, as str.splitlines gives them
SplitLines(text) ==
    LET ends == {i \in 1..Len(text) : text[i] = "\n"}
        n == Cardinality(ends)
        end(k) == IF k = 0 THEN 0 ELSE CHOOSE p \in ends : Cardinality({q \in ends : q <= p}) = k
        whole == [k \in 1..n |-> SubSeq(text, end(k - 1) + 1, end(k) - 1)]
    IN IF end(n) < Len(text) THEN Append(whole, SubSeq(text, end(n) + 1, Len(text))) ELSE whole

\* the dates of Dates in ISO form
IsoDate == << <<"2","0","2","4","-","0","5","-","1","8">>,
              <<"2","0","2","4","-","1","2","-","0","9">> >>

HeaderLine(console) == <<"C","o","n","s","o","l","e",":"," ">> \o console
DisclaimerLine(console) == WarningPrefix \o console \o SubSeq(WarningSuffix, 1, Len(WarningSuffix) - 2)

\* the file of that name in the directory, a sequence of 0 or 1 contents
ContentIn(f, d, name) ==
    LET hits == SelectSeq(f[d].entries, LAMBDA e : e.name = name)
    IN [i \in 1..Len(hits) |-> hits[i].data]
Content(d, name) == ContentIn(fs, d, name)

DirUsable(d) == DirThere(d) /\ fs[d].mode = "ok"

\* C6: a listing with N >= 1 names ending in ".zip" (case-sensitive) gives
\* exactly those names as titles, in listing order; the report written for
\* them is <directory>/<console>_<YYYY-MM-DD>.txt with today's date, and its
\* lines are the header, the disclaimer, an empty line and the N names.
C6_ReportContent ==
    [][ /\ (ScanStep /\ DirUsable(CurDirectory)) =>
              game_titles' = SelectSeq(listdir(CurDirectory), EndsInDotZip)
        /\ (WriteStep /\ game_titles # <<>> /\ DirUsable(CurDirectory)) =>
              LET name == CurConsole \o <<"_">> \o IsoDate[today] \o <<".","t","x","t">>
                  path == CurDirectory \o <<"/">> \o name
                  seen == SelectSeq(Last(calls).listing, EndsInDotZip)
              IN /\ Last(calls).op = "get_game_titles"
                 /\ Len(seen) >= 1
                 /\ Last(log').kind = LineWritten
                 /\ Last(log').arg = path
                 /\ Len(ContentIn(fs', CurDirectory, name)) = 1
                 /\ SplitLines(ContentIn(fs', CurDirectory, name)[1])
                       = << HeaderLine(CurConsole), DisclaimerLine(CurConsole), <<>> >> \o seen
    ]_vars

\* a report was written from a listing that holds two .zip names, not in
\* alphabetical order, and a .ZIP name
C6_Witness ==
    /\ log # <<>>
    /\ Last(log).kind = LineWritten
    /\ fsWrites # <<>>
    /\ Last(fsWrites).titles = <<Alpha, MegaMan>>
    /\ \E i \in 1..Len(Last(fsWrites).listing) : Last(fsWrites).listing[i] = UpperZip

----------------------------------------------------------------------------
(* C7 *)

\* the successful writes for a console, oldest first
WritesOf(console) == SelectSeq(fsWrites, LAMBDA w : w.console = console)

C7_Inv ==
    /\ \A i, j \in 1..Len(output_files) :
          output_files[i][1] = output_files[j][1] => i = j
    /\ \A i \in 1..Len(output_files) :
          /\ WritesOf(output_files[i][1]) # <<>>
          /\ output_files[i][2] = Last(WritesOf(output_files[i][1])).path
    /\ \A k \in 1..Len(fsWrites) :
          \E i \in 1..Len(output_files) : output_files[i][1] = fsWrites[k].console

C7_Step ==
    /\ output_files' # output_files =>
          /\ WriteStep
          /\ Last(log').kind = LineWritten
          /\ Len(fsWrites') = Len(fsWrites) + 1
    /\ Len(fsWrites') = Len(fsWrites) + 1 =>
          \* the write that is recorded has put the whole report into the file
          /\ ContentIn(fs', Last(fsWrites').directory, basename(Last(fsWrites').path)) = <<Last(fsWrites').data>>
          /\ Last(fsWrites').console = CurConsole
    /\ (WriteStep /\ Last(log').kind # LineWritten) => output_files' = output_files
    /\ EntryStep => output_files' = output_files

\* C7: the output records hold at most one record per console; a console
\* has a record only if a report write for it succeeded, and the record is
\* the path of the latest such write; a failed or skipped write leaves the
\* records as they are.
C7_RecordIsLatestWrite == [][C7_Step /\ C7_Inv']_vars

\* a console was written twice, to two paths, and its record is the second
C7_Witness ==
    \E i, j \in 1..Len(fsWrites) :
        /\ i < j
        /\ fsWrites[i].console = fsWrites[j].console
        /\ fsWrites[i].path # fsWrites[j].path
        /\ DictGet(output_files, fsWrites[j].console, <<>>) = fsWrites[j].path

----------------------------------------------------------------------------
(* C8 *)

KeyAt(d, k) == CHOOSE i \in 1..Len(d) : d[i][1] = k

\* C8 as stated (refuted): every registry entry holds a directory.
C8_EveryEntryHasDirectory ==
    \A i \in 1..Len(console_entries) : console_entries[i][2] # <<>>

\* C8 amended: selecting a console that has no entry creates an entry with
\* the empty directory_path, selecting a console that has one keeps its
\* directory; an entry's directory_path changes only to a directory the user
\* chose for the selected console; no entry is ever removed.
C8_EntryMadeBySelection ==
    [][ /\ \A i \in 1..Len(console_entries) : DictHas(console_entries', console_entries[i][1])
        /\ \A j \in 1..Len(console_entries') :
              LET console == console_entries'[j][1]
                  directory == console_entries'[j][2]
              IN IF DictHas(console_entries, console)
                 THEN \/ directory = console_entries[KeyAt(console_entries, console)][2]
                      \/ /\ directory # <<>>
                         /\ directory = directory_entry'
                         /\ selected_console = Some(console)
                 ELSE /\ directory = <<>>
                      /\ selected_console' = Some(console)
        /\ selected_console' # None => DictHas(console_entries', selected_console'[1])
    ]_vars

\* the registry holds a console with a directory and, after it, a console
\* that was only selected
C8_Witness ==
    /\ Len(console_entries) = 2
    /\ console_entries[1][2] # <<>>
    /\ console_entries[2][2] = <<>>
    /\ selected_console = Some(console_entries[2][1])

----------------------------------------------------------------------------
(* C9 *)

\* C9 as stated (refuted): the consoles that hold a directory iterate in
\* the order of their first directory assignment, that is, a console that
\* gets its first directory stands after every console that holds one.
C9_OrderIsFirstAssignmentOrder ==
    [][ \A j \in 1..Len(console_entries') :
           ( /\ console_entries'[j][2] # <<>>
             /\ DictGet(console_entries, console_entries'[j][1], <<>>) = <<>> )
           => \A k \in (j + 1)..Len(console_entries') : console_entries'[k][2] = <<>>
    ]_vars

\* C9 amended: the registry maps the selected console to the directory of
\* its latest assignment and leaves the other entries alone; the iteration
\* order is the order in which the consoles were first selected, unchanged
\* by later selections and assignments; a directory chosen while no console
\* is selected leaves the registry unchanged.
C9_OrderIsFirstSelectionOrder ==
    [][ /\ \/ DictKeys(console_entries') = DictKeys(console_entries)
           \/ /\ selected_console' # None
              /\ ~DictHas(console_entries, selected_console'[1])
              /\ DictKeys(console_entries') = Append(DictKeys(console_entries), selected_console'[1])
        /\ directory_entry' # directory_entry =>
              IF selected_console = None
              THEN console_entries' = console_entries
              ELSE /\ Len(console_entries') = Len(console_entries)
                   /\ \A j \in 1..Len(console_entries) :
                         console_entries'[j] =
                            IF console_entries[j][1] = selected_console[1]
                            THEN <<selected_console[1], directory_entry'>>
                            ELSE console_entries[j]
        /\ (log' # <<>> /\ log'[1].kind = "Selected directory for") =>
              /\ log'[1].arg[1] = selected_console'[1]
              /\ console_entries'[KeyAt(console_entries', selected_console'[1])][2] = log'[1].arg[2]
              /\ log'[1].arg[2] = directory_entry'
        /\ (log' # <<>> /\ log'[1].kind = "Info: Attempt to select a directory without a selected console.")
              => console_entries' = console_entries
    ]_vars

\* the first console of the registry has just been given a directory, after
\* the second console got one
C9_Witness ==
    /\ Len(console_entries) = 2
    /\ console_entries[1][2] = DirB
    /\ console_entries[2][2] = DirA
    /\ log # <<>>
    /\ log[1].kind = "Selected directory for"
    /\ log[1].arg = <<console_entries[1][1], DirB>>

----------------------------------------------------------------------------
(* C10 *)

\* the earlier successful writes for the same console and directory
EarlierWrites(console, directory) ==
    SelectSeq(fsWrites, LAMBDA w : w.console = console /\ w.directory = directory)

\* a name of the form <console>_..........txt
IsReportOf(console, name) ==
    /\ Len(name) > Len(console) + 5
    /\ SubSeq(name, 1, Len(console) + 1) = console \o <<"_">>
    /\ SubSeq(name, Len(name) - 3, Len(name)) = <<".","t","x","t">>

Without(listing, name) == SelectSeq(listing, LAMBDA n : n # name)

====
